---- MODULE Spec2Model ----
(***************************************************************************)
(* A model of repo-utils: project selection / manifest resolution          *)
(* (src/src/repo_project_selector.rs) and the multi-repository history     *)
(* aggregation (src/src/repo_history/model.rs).                            *)
(*                                                                         *)
(* Strings whose characters matter (the groups attribute of a project,     *)
(* a requested group name) are sequences of one-character strings; paths   *)
(* are sequences of path components below the folder that holds .repo.     *)
(***************************************************************************)
EXTENDS Integers, Sequences, FiniteSets, TLC

(***************************************************************************)
(* Bounds of the model.                                                    *)
(***************************************************************************)
\* longest project.list the model enumerates
MaxListLen == 2
\* most commit ids one commit walk yields
MaxWalkLen == 2
\* the width given to u32, small enough for the integers of the model checker
\* and for the walks to reach both ends of the range
U32Bits == 4
\* most projects handed to forall
MaxProjects == 3
MaxIncludes == 2

VARIABLES
    project_list,   \* .repo/project.list as found on disk
    files,          \* the manifest files below .repo, by path
    sel_call,       \* the arguments of the select_projects call made, if any
    sel_result,     \* what that call came to
    parse_call,     \* the parse_manifest or parse call made, if any
    parse_result,   \* what that call came to
    classifier,     \* the Classifier of the run
    cl_commit,      \* the commit handed to Classifier::classify
    cl_result,      \* the (include, abort) it returned, if it was called
    repos,          \* the repositories handed to MultiRepoHistory::from
    task,           \* per repository, how far its flat_map closure has come
    missing_commits,\* the atomic counter of commit ids that did not resolve
    history,        \* the MultiRepoHistory returned, if any
    history_cmd,    \* the run of the repo-history command, if any
    forall_st,      \* the run of forall of the repo-forall command, if any
    restore_st      \* the run of the repo-restore command, if any

sel_vars == <<project_list, files, sel_call, sel_result, parse_call, parse_result>>
cl_vars == <<cl_commit, cl_result>>
hist_vars == <<repos, task, missing_commits, history>>
bin_vars == <<history_cmd, forall_st, restore_st>>

vars == <<project_list, files, sel_call, sel_result, parse_call, parse_result,
          classifier, cl_commit, cl_result, repos, task, missing_commits, history,
          history_cmd, forall_st, restore_st>>

(***************************************************************************)
(* Generic helpers.                                                        *)
(***************************************************************************)
Range(s) == {s[i] : i \in 1..Len(s)}

RECURSIVE SeqsUpTo(_, _)
SeqsUpTo(S, n) ==
    IF n = 0 THEN {<<>>}
    ELSE LET shorter == SeqsUpTo(S, n - 1)
         IN  shorter \cup {Append(s, x) : s \in {t \in shorter : Len(t) = n - 1}, x \in S}

\* Option<T>
None == [some |-> FALSE, val |-> <<>>]
Some(v) == [some |-> TRUE, val |-> v]

\* Result<T>, and the third way a call can end: the recursion of parse exhausts
\* the stack and the process is aborted.
Ok(v) == [tag |-> "Ok", val |-> v]
Err == [tag |-> "Err", val |-> <<>>]
StackOverflow == [tag |-> "StackOverflow", val |-> <<>>]

(***************************************************************************)
(* Paths.                                                                  *)
(***************************************************************************)
RepoFolder == <<".repo">>
ManifestsFolder == <<".repo", "manifests">>
ManifestRepoPath == ".repo/manifests"

\* What the file system makes of a path: a ".." component leaves the folder
\* named before it.
RECURSIVE Resolve(_, _)
Resolve(done, rest) ==
    IF rest = <<>> THEN done
    ELSE IF Head(rest) = ".."
         THEN Resolve(IF done = <<>> THEN <<>> ELSE SubSeq(done, 1, Len(done) - 1), Tail(rest))
         ELSE Resolve(Append(done, Head(rest)), Tail(rest))

\* Path::join, for a relative second path
join(base, rel) == base \o rel

\* Path::with_file_name: the last component replaced
with_file_name(path, file_name) == SubSeq(path, 1, Len(path) - 1) \o file_name

(***************************************************************************)
(* The manifest model.                                                     *)
(***************************************************************************)
Delimiters == {",", " "}

\* str::split(&[',', ' ']): the pieces between delimiters, empty pieces kept;
\* the empty string splits into one empty piece.
RECURSIVE split(_)
split(s) ==
    IF \A i \in 1..Len(s) : s[i] \notin Delimiters
    THEN <<s>>
    ELSE LET i == CHOOSE k \in 1..Len(s) :
                      /\ s[k] \in Delimiters
                      /\ \A j \in 1..(k - 1) : s[j] \notin Delimiters
         IN  <<SubSeq(s, 1, i - 1)>> \o split(SubSeq(s, i + 1, Len(s)))

\* Project::in_any_given_group
in_any_given_group(project, test_for_groups) ==
    LET project_groups == split(IF project.groups.some THEN project.groups.val ELSE <<>>)
    IN  \E i \in 1..Len(project_groups) :
            \E j \in 1..Len(test_for_groups) : project_groups[i] = test_for_groups[j]

\* Manifest::empty
empty == [projects |-> <<>>, includes |-> <<>>]

\* append with the projects assigned where they should be added
append_replacing(self, manifest) ==
    [self EXCEPT !.projects = manifest.projects]

\* append that takes the includes of the other manifest along
append_with_includes(self, manifest) ==
    [projects |-> self.projects \o manifest.projects,
     includes |-> self.includes \o manifest.includes]

\* Manifest::append: the projects of the other manifest, none of its includes
append(self, manifest) ==
    [self EXCEPT !.projects = self.projects \o manifest.projects]

\* Manifest::contains_project
contains_project(self, local_path) ==
    \E i \in 1..Len(self.projects) : self.projects[i].path = local_path

\* Manifest::find_project: the first project with that path
find_project(self, local_path) ==
    IF contains_project(self, local_path)
    THEN Some(self.projects[CHOOSE i \in 1..Len(self.projects) :
                  /\ self.projects[i].path = local_path
                  /\ \A j \in 1..(i - 1) : self.projects[j].path # local_path])
    ELSE None

(***************************************************************************)
(* The files.                                                              *)
(***************************************************************************)
Missing == [kind |-> "Missing", projects |-> <<>>, includes |-> <<>>]
Malformed == [kind |-> "Malformed", projects |-> <<>>, includes |-> <<>>]
Doc(projects, includes) == [kind |-> "Doc", projects |-> projects, includes |-> includes]

\* File::open followed by serde_xml_rs::from_reader
read_manifest(fs, path) ==
    LET real == Resolve(<<>>, path)
    IN  IF real \in DOMAIN fs THEN fs[real] ELSE Missing

PrimaryManifest == <<".repo", "manifest.xml">>

FilePaths ==
    { PrimaryManifest,
      <<".repo", "manifests", "a.xml">>,
      <<".repo", "manifests", "b.xml">> }

\* A chain of nested parse calls longer than the number of files parses some
\* file inside its own parse, and so never ends.
StackLimit == Cardinality(FilePaths) + 1

\* parse that leaves the includes of the file unresolved
parse_flat(fs, path, fuel) ==
    LET file == read_manifest(fs, path)
    IN  IF file.kind # "Doc" THEN Err
        ELSE Ok([projects |-> file.projects, includes |-> file.includes])

RECURSIVE parse(_, _, _)
RECURSIVE parse_includes(_, _, _, _, _)

\* the for loop of parse over the include names from index i on
parse_includes(fs, path, manifest, i, fuel) ==
    IF i > Len(manifest.includes) THEN Ok(manifest)
    ELSE LET child == parse(fs, with_file_name(path, manifest.includes[i]), fuel - 1)
         IN  IF child.tag # "Ok" THEN child
             ELSE parse_includes(fs, path, append(manifest, child.val), i + 1, fuel)

\* parse that notices a file included by itself and returns an error for it
parse_reporting_cycles(fs, path, fuel) ==
    IF fuel = 0 THEN Err
    ELSE LET file == read_manifest(fs, path)
         IN  IF file.kind # "Doc" THEN Err
             ELSE parse_includes(fs, path,
                      [projects |-> file.projects, includes |-> file.includes], 1, fuel)

parse(fs, path, fuel) ==
    IF fuel = 0 THEN StackOverflow
    ELSE LET file == read_manifest(fs, path)
         IN  IF file.kind # "Doc" THEN Err
             ELSE parse_includes(fs, path,
                      [projects |-> file.projects, includes |-> file.includes], 1, fuel)

RECURSIVE parse_manifest_includes(_, _, _, _)

\* the for loop of parse_manifest over the include names from index i on
parse_manifest_includes(fs, manifest, i, fuel) ==
    IF i > Len(manifest.includes) THEN Ok(manifest)
    ELSE LET child == parse(fs, join(ManifestsFolder, manifest.includes[i]), fuel - 1)
         IN  IF child.tag # "Ok" THEN child
             ELSE parse_manifest_includes(fs, append(manifest, child.val), i + 1, fuel)

\* parse_manifest that takes the includes of the file for its siblings
parse_manifest_by_siblings(fs, path) == parse(fs, path, StackLimit)

parse_manifest(fs, path) ==
    LET file == read_manifest(fs, path)
    IN  IF file.kind # "Doc" THEN Err
        ELSE parse_manifest_includes(fs,
                 [projects |-> file.projects, includes |-> file.includes], 1, StackLimit)

(***************************************************************************)
(* select_projects.                                                        *)
(***************************************************************************)
\* lines_from_file that loses the last line
lines_from_file_dropping_last(pl) ==
    IF pl.kind = "Lines" THEN Ok(SubSeq(pl.lines, 1, Len(pl.lines) - 1)) ELSE Err

\* find_project_list and lines_from_file
lines_from_file(pl) == IF pl.kind = "Lines" THEN Ok(pl.lines) ELSE Err

\* the group filter of select_projects
filter_groups(fs, selected_projects, groups) ==
    LET manifest == parse_manifest(fs, join(RepoFolder, <<"manifest.xml">>))
        keep(path) == LET project == find_project(manifest.val, path)
                      IN  project.some /\ in_any_given_group(project.val, groups)
    IN  IF manifest.tag # "Ok" THEN manifest
        ELSE Ok(SelectSeq(selected_projects, keep))

RECURSIVE aggregate_manifests(_, _, _, _)
\* the for loop of select_projects over the manifest files from index i on
aggregate_manifests(fs, manifest_files, aggregated_manifest, i) ==
    IF i > Len(manifest_files) THEN Ok(aggregated_manifest)
    ELSE LET manifest == parse_manifest(fs, join(ManifestsFolder, manifest_files[i]))
         IN  IF manifest.tag # "Ok" THEN manifest
             ELSE aggregate_manifests(fs, manifest_files,
                      append(aggregated_manifest, manifest.val), i + 1)

\* the manifest filter walking the aggregated manifest where it should walk
\* the selected projects
filter_manifest_files_by_manifest(fs, selected_projects, manifest_files) ==
    LET aggregated_manifest == aggregate_manifests(fs, manifest_files, empty, 1)
        paths == [i \in 1..Len(aggregated_manifest.val.projects) |->
                     aggregated_manifest.val.projects[i].path]
    IN  IF aggregated_manifest.tag # "Ok" THEN aggregated_manifest
        ELSE Ok(SelectSeq(paths, LAMBDA p : p \in Range(selected_projects)))

\* the manifest filter of select_projects
filter_manifest_files(fs, selected_projects, manifest_files) ==
    LET aggregated_manifest == aggregate_manifests(fs, manifest_files, empty, 1)
        keep(p) == contains_project(aggregated_manifest.val, p)
    IN  IF aggregated_manifest.tag # "Ok" THEN aggregated_manifest
        ELSE Ok(SelectSeq(selected_projects, keep))

\* the manifest repository put first where it should be put last
push_manifest_repo_first(selected_projects, include_manifest_repo) ==
    IF include_manifest_repo
    THEN <<ManifestRepoPath>> \o selected_projects
    ELSE selected_projects

\* the last step of select_projects
push_manifest_repo(selected_projects, include_manifest_repo) ==
    IF include_manifest_repo
    THEN Append(selected_projects, ManifestRepoPath)
    ELSE selected_projects

\* select_projects with the manifest filter applied to the projects on disk
\* where it should be applied to what the group filter left
select_projects_refiltering(pl, fs, include_manifest_repo, filter_by_groups, filter_by_manifest_files) ==
    LET projects_on_disk == lines_from_file(pl)
        after_groups ==
            IF filter_by_groups.some
            THEN filter_groups(fs, projects_on_disk.val, filter_by_groups.val)
            ELSE projects_on_disk
        after_manifests ==
            IF filter_by_manifest_files.some
            THEN filter_manifest_files(fs, projects_on_disk.val, filter_by_manifest_files.val)
            ELSE after_groups
    IN  IF projects_on_disk.tag # "Ok" THEN projects_on_disk
        ELSE IF after_groups.tag # "Ok" THEN after_groups
        ELSE IF after_manifests.tag # "Ok" THEN after_manifests
        ELSE Ok(push_manifest_repo(after_manifests.val, include_manifest_repo))

select_projects(pl, fs, include_manifest_repo, filter_by_groups, filter_by_manifest_files) ==
    LET projects_on_disk == lines_from_file(pl)
        after_groups ==
            IF filter_by_groups.some
            THEN filter_groups(fs, projects_on_disk.val, filter_by_groups.val)
            ELSE projects_on_disk
        after_manifests ==
            IF filter_by_manifest_files.some
            THEN filter_manifest_files(fs, after_groups.val, filter_by_manifest_files.val)
            ELSE after_groups
    IN  IF projects_on_disk.tag # "Ok" THEN projects_on_disk
        ELSE IF after_groups.tag # "Ok" THEN after_groups
        ELSE IF after_manifests.tag # "Ok" THEN after_manifests
        ELSE Ok(push_manifest_repo(after_manifests.val, include_manifest_repo))

(***************************************************************************)
(* Which files a parse reads.                                              *)
(***************************************************************************)
\* the files parse opens for the includes of the file at path: its siblings
included_by_parse(fs, path) ==
    LET file == read_manifest(fs, path)
    IN  {Resolve(<<>>, with_file_name(path, file.includes[i])) : i \in 1..Len(file.includes)}

\* the files parse_manifest opens for the includes of the file at path: files
\* of the manifests folder
included_by_parse_manifest(fs, path) ==
    LET file == read_manifest(fs, path)
    IN  {Resolve(<<>>, join(ManifestsFolder, file.includes[i])) : i \in 1..Len(file.includes)}

\* the files reached from the files of S through nested includes
RECURSIVE nested_closure(_, _)
nested_closure(fs, S) ==
    LET more == S \cup UNION {included_by_parse(fs, p) : p \in S}
    IN  IF more = S THEN S ELSE nested_closure(fs, more)

\* every file a complete parse(path) reads
files_of_parse(fs, path) == nested_closure(fs, {Resolve(<<>>, path)})

\* every file a complete parse_manifest(path) reads
files_of_parse_manifest(fs, path) ==
    {Resolve(<<>>, path)} \cup nested_closure(fs, included_by_parse_manifest(fs, path))

(***************************************************************************)
(* The classifier.                                                         *)
(***************************************************************************)
SecondsPerDay == 86400

\* chrono::Utc::now(), taken as the same instant for every commit of a run
Now == 100 * SecondsPerDay

\* i64 division rounds towards zero
TruncDiv(a, b) == IF a >= 0 THEN a \div b ELSE -((-a) \div b)

\* Duration::num_days
num_days(seconds) == TruncDiv(seconds, SecondsPerDay)

RECURSIVE Pow2(_)
Pow2(n) == IF n = 0 THEN 1 ELSE 2 * Pow2(n - 1)

\* u32::MAX
U32Max == Pow2(U32Bits) - 1

\* the cast `as u32` of an i64: its low bits
as_u32(n) == n % Pow2(U32Bits)

\* crate::utils::as_datetime_utc: the instant of a git2::Time, in seconds
as_datetime_utc(time) == time

\* The letters of the model: "A" and "U+00C4" are upper case, with the lower
\* case letters "a" and "U+00E4"; only "A" and "a" are ASCII.
to_lowercase_char(c) ==
    IF c = "A" THEN "a" ELSE IF c = "U+00C4" THEN "U+00E4" ELSE c

to_ascii_lowercase_char(c) == IF c = "A" THEN "a" ELSE c

\* str::to_lowercase
to_lowercase(str) == [i \in 1..Len(str) |-> to_lowercase_char(str[i])]

\* str::to_ascii_lowercase
to_ascii_lowercase(str) == [i \in 1..Len(str) |-> to_ascii_lowercase_char(str[i])]

\* str::contains
contains(str, pattern) ==
    \E i \in 0..(Len(str) - Len(pattern)) :
        SubSeq(str, i + 1, i + Len(pattern)) = pattern

\* Classifier::new
Classifier_new(age, author, message) ==
    [age |-> age,
     author |-> IF author.some THEN Some(to_lowercase(author.val)) ELSE None,
     message |-> IF message.some THEN Some(to_lowercase(message.val)) ELSE None]

\* the two text filters of Classifier::classify
passes_filters(self, commit) ==
    /\ self.message.some =>
           contains(to_ascii_lowercase(commit.message), self.message.val)
    /\ self.author.some =>
           contains(to_ascii_lowercase(commit.author), self.author.val)

\* Classifier::classify
classify(self, commit) ==
    LET utc == as_datetime_utc(commit.time)
        diff == Now - utc
        include == as_u32(num_days(diff)) <= self.age
    IN  [include |-> include /\ passes_filters(self, commit), abort |-> ~include]

\* what a commit walk yields: a commit, or an id that resolves to none
Commit(time, author, message) ==
    [resolves |-> TRUE, time |-> time, author |-> author, message |-> message]

Unresolved == [resolves |-> FALSE, time |-> 0, author |-> <<>>, message |-> <<>>]

(***************************************************************************)
(* MultiRepoHistory::from.                                                 *)
(***************************************************************************)
\* RepoCommit::from
RepoCommit_from(repo, commit, commit_id) ==
    [repo |-> repo.rel_path, commit_time |-> commit.time, author |-> commit.author,
     message |-> commit.message, commit_id |-> commit_id]

\* Ord::cmp on the commit times
cmp(a, b) == IF a < b THEN "Less" ELSE IF a = b THEN "Equal" ELSE "Greater"

\* Ordering::reverse
reverse(ordering) ==
    IF ordering = "Less" THEN "Greater" ELSE IF ordering = "Greater" THEN "Less" ELSE "Equal"

\* the comparison without the reverse
compare_ascending(a, b) == cmp(a.commit_time, b.commit_time)

\* the comparison handed to sort_unstable_by
compare(a, b) == reverse(cmp(a.commit_time, b.commit_time))

\* the arrangements of the elements of s at the indices I in which no
\* element compares greater than a later one: any element that compares
\* greater than no other comes first, then the rest in the same way
RECURSIVE sorted_arrangements(_, _)
sorted_arrangements(s, I) ==
    IF I = {} THEN {<<>>}
    ELSE UNION {{<<s[i]>> \o rest : rest \in sorted_arrangements(s, I \ {i})} :
                    i \in {j \in I : \A k \in I : compare(s[j], s[k]) # "Greater"}}

\* the orders sort_unstable_by may leave a sequence in: every arrangement of
\* its elements in which no element compares greater than its successor
sort_unstable_by(s) == sorted_arrangements(s, 1..Len(s))

\* AtomicUsize::fetch_add: one indivisible read-modify-write
fetch_add_overwriting(counter, val) == val

fetch_add(counter, val) == counter + val

\* a collect that keeps the list of the last closure only
collect_last(tasks, n) == IF n = 0 THEN <<>> ELSE tasks[n].commits

\* flat_map and collect: the lists of the closures, in the order of the repos
RECURSIVE collect(_, _)
collect(tasks, n) ==
    IF n = 0 THEN <<>> ELSE collect(tasks, n - 1) \o tasks[n].commits

(***************************************************************************)
(* The inputs the model enumerates.                                        *)
(***************************************************************************)
ListPaths == {"boiler", "pot", ManifestRepoPath}

ProjectLists ==
    {[kind |-> k, lines |-> <<>>] : k \in {"NoList", "Unreadable"}}
        \cup {[kind |-> "Lines", lines |-> l] : l \in SeqsUpTo(ListPaths, MaxListLen)}

\* project elements: <project path="boiler"/> without a groups attribute and
\* <project path="boiler" groups="e,m"/>; no manifest names the path "pot"
Projects ==
    { [name |-> "n", path |-> "boiler", groups |-> None],
      [name |-> "n", path |-> "boiler", groups |-> Some(<<"e", ",", "m">>)] }

IncludeNames == {<<"a.xml">>, <<"b.xml">>}

\* a manifest file of the model holds at most one project element and at most
\* one include element; chains and cycles of includes span several files
FileContents ==
    {Missing, Malformed}
        \cup {Doc(p, i) : p \in {<<>>} \cup {<<x>> : x \in Projects},
                          i \in {<<>>} \cup {<<n>> : n \in IncludeNames}}

\* manifest files of include elements alone, up to MaxIncludes of them
IncludeFiles ==
    {Missing, Malformed} \cup {Doc(<<>>, i) : i \in SeqsUpTo(IncludeNames, MaxIncludes)}

\* the requested groups: none, ["m"], ["m", "x"]
GroupFilters == {None, Some(<<<<"m">>>>), Some(<<<<"m">>, <<"x">>>>)}

\* the requested manifest files, relative to the manifests folder
ManifestFilters ==
    {None, Some(<<<<"a.xml">>>>), Some(<<<<"a.xml">>, <<"b.xml">>>>),
     Some(<<<<"..", "manifest.xml">>>>)}

NoCall == [made |-> FALSE, include_manifest_repo |-> FALSE,
           filter_by_groups |-> None, filter_by_manifest_files |-> None]

NoParse == [made |-> "none", path |-> <<>>]

\* commit times: two days ahead of now, half a day ahead, now, and from half
\* a day to some days ago, up to the largest age in days u32 holds (chrono's
\* DateTime spans fewer days than that, so no older commit time exists)
ClassifiedTimes ==
    {Now + 2 * SecondsPerDay, Now + (SecondsPerDay \div 2), Now,
     Now - (SecondsPerDay \div 2), Now - SecondsPerDay,
     Now - (SecondsPerDay + SecondsPerDay \div 2), Now - 3 * SecondsPerDay,
     Now - U32Max * SecondsPerDay}

Authors == {<<>>, <<"A", "b">>, <<"c">>, <<"U+00C4">>}
Messages == {<<>>, <<"A", "b">>, <<"c">>}
Patterns == {None, Some(<<"A">>), Some(<<"b", "c">>), Some(<<"U+00C4">>)}
Ages == {0, 1, U32Max}

Classifiers ==
    {Classifier_new(age, author, message) :
         age \in Ages, author \in Patterns, message \in Patterns}

NoResult == [called |-> FALSE, include |-> FALSE, abort |-> FALSE]

\* what the walks of the aggregation yield: an id that does not resolve, and
\* commits of now, of a day ago, of three days ago and of two days ahead
WalkEntries ==
    { Unresolved,
      Commit(Now, <<"A", "b">>, <<>>),
      Commit(Now - SecondsPerDay, <<"c">>, <<>>),
      Commit(Now - 3 * SecondsPerDay, <<"A", "b">>, <<>>),
      Commit(Now + 2 * SecondsPerDay, <<"A", "b">>, <<>>) }

RepoPaths == <<"boiler", "pot">>

\* a repository: whether Repository::open, revwalk and push_head succeed on
\* it, and what a walk of its history yields under the strategy of the run
RepoStates(rel_path) ==
    {[rel_path |-> rel_path, status |-> st, walk |-> <<Commit(Now, <<"A", "b">>, <<>>)>>] :
         st \in {"open fails", "revwalk fails", "push_head fails"}}
        \cup {[rel_path |-> rel_path, status |-> "ok", walk |-> w] :
                  w \in SeqsUpTo(WalkEntries, MaxWalkLen)}

\* the Classifiers of the aggregation: a window of one day, with and
\* without an author pattern
HistoryClassifiers ==
    {Classifier_new(1, author, None) : author \in {None, Some(<<"A">>)}}

NoHistory == [returned |-> FALSE, commits |-> <<>>, locally_missing_commits |-> 0]

\* the worker threads of the rayon pool of repo-forall
Workers == {"w1", "w2"}

NoHistoryCmd ==
    [status |-> "none", group |-> None, manifest |-> None, include_manifest |-> FALSE]

NoForall ==
    [pc |-> "none", list_of_projects |-> <<>>, fail_fast |-> FALSE, full |-> FALSE,
     worker |-> [w \in Workers |-> [pc |-> "stopped", item |-> 0]],
     started |-> {}, failed |-> {}, started_after_failure |-> {},
     started_after_full |-> [w \in Workers |-> 0], sent |-> {}, result |-> "none",
     executions |-> <<>>, received |-> {}, succeeded |-> 0, failed_count |-> 0]

NoRestore ==
    [pc |-> "none", dry_run |-> FALSE, list_of_projects |-> <<>>, dirty_repos |-> <<>>,
     confirmation |-> FALSE, restored |-> <<>>, result |-> "none"]

(***************************************************************************)
(* The specifications: each behaviour is one call of one part.  The parts  *)
(* not called stay as they are.                                            *)
(***************************************************************************)
SelIdle ==
    /\ project_list = [kind |-> "NoList", lines |-> <<>>]
    /\ files = [p \in FilePaths |-> Missing]
    /\ sel_call = NoCall
    /\ sel_result = Err
    /\ parse_call = NoParse
    /\ parse_result = Err

ClIdle ==
    /\ cl_commit = Unresolved
    /\ cl_result = NoResult

HistIdle ==
    /\ repos = <<>>
    /\ task = <<>>
    /\ missing_commits = 0
    /\ history = NoHistory

BinIdle ==
    /\ history_cmd = NoHistoryCmd
    /\ forall_st = NoForall
    /\ restore_st = NoRestore

(***************************************************************************)
(* Project selection: one call of the library on the files found on disk.  *)
(***************************************************************************)
Idle == ~sel_call.made /\ parse_call.made = "none"

SelInit ==
    /\ project_list \in ProjectLists
    /\ files \in [FilePaths -> FileContents]
    /\ sel_call = NoCall
    /\ sel_result = Err
    /\ parse_call = NoParse
    /\ parse_result = Err
    /\ classifier = Classifier_new(0, None, None)
    /\ ClIdle
    /\ HistIdle
    /\ BinIdle

SelectProjects ==
    /\ Idle
    /\ \E inc \in BOOLEAN, g \in GroupFilters, m \in ManifestFilters :
          /\ sel_call' = [made |-> TRUE, include_manifest_repo |-> inc,
                          filter_by_groups |-> g, filter_by_manifest_files |-> m]
          /\ sel_result' = select_projects(project_list, files, inc, g, m)
    /\ UNCHANGED <<project_list, files, parse_call, parse_result>>
    /\ UNCHANGED <<classifier, cl_vars, hist_vars, bin_vars>>

ParseManifest ==
    /\ Idle
    /\ \E path \in FilePaths :
          /\ parse_call' = [made |-> "parse_manifest", path |-> path]
          /\ parse_result' = parse_manifest(files, path)
    /\ UNCHANGED <<project_list, files, sel_call, sel_result>>
    /\ UNCHANGED <<classifier, cl_vars, hist_vars, bin_vars>>

Parse ==
    /\ Idle
    /\ \E path \in FilePaths :
          /\ parse_call' = [made |-> "parse", path |-> path]
          /\ parse_result' = parse(files, path, StackLimit)
    /\ UNCHANGED <<project_list, files, sel_call, sel_result>>
    /\ UNCHANGED <<classifier, cl_vars, hist_vars, bin_vars>>

SelNext == SelectProjects \/ ParseManifest \/ Parse

SpecSelect == SelInit /\ [][SelNext]_vars

(***************************************************************************)
(* Manifest parsing alone, on files of several include elements.           *)
(***************************************************************************)
ParseInit ==
    /\ project_list = [kind |-> "NoList", lines |-> <<>>]
    /\ files \in [FilePaths -> IncludeFiles]
    /\ sel_call = NoCall
    /\ sel_result = Err
    /\ parse_call = NoParse
    /\ parse_result = Err
    /\ classifier = Classifier_new(0, None, None)
    /\ ClIdle
    /\ HistIdle
    /\ BinIdle

ParseNext == ParseManifest \/ Parse

SpecParse == ParseInit /\ [][ParseNext]_vars

(***************************************************************************)
(* The classifier: one call of classify.                                   *)
(***************************************************************************)
ClInit ==
    /\ classifier \in Classifiers
    /\ cl_commit \in {Commit(t, a, m) : t \in ClassifiedTimes, a \in Authors, m \in Messages}
    /\ cl_result = NoResult
    /\ SelIdle
    /\ HistIdle
    /\ BinIdle

Classify ==
    /\ ~cl_result.called
    /\ LET r == classify(classifier, cl_commit)
       IN  cl_result' = [called |-> TRUE, include |-> r.include, abort |-> r.abort]
    /\ UNCHANGED <<classifier, cl_commit, sel_vars, hist_vars, bin_vars>>

ClNext == Classify

SpecClassify == ClInit /\ [][ClNext]_vars

(***************************************************************************)
(* The aggregation: one call of MultiRepoHistory::from.  The closures of   *)
(* the repositories run on the threads of the pool, in any interleaving.   *)
(***************************************************************************)
HistInit ==
    /\ classifier \in HistoryClassifiers
    /\ repos \in {<<a, b>> : a \in RepoStates(RepoPaths[1]), b \in RepoStates(RepoPaths[2])}
    /\ task = [r \in 1..Len(repos) |-> [pc |-> "pending", pos |-> 1, commits |-> <<>>]]
    /\ missing_commits = 0
    /\ history = NoHistory
    /\ SelIdle
    /\ ClIdle
    /\ BinIdle

\* an open that goes on to walk a repository whatever open, revwalk and
\* push_head came to
OpenRepo_ignoring_errors(r) ==
    /\ task[r].pc = "pending"
    /\ task' = [task EXCEPT ![r].pc = "walking"]
    /\ UNCHANGED <<repos, missing_commits, history, classifier, sel_vars, cl_vars, bin_vars>>

\* an open whose failure ends the closures of the other repositories too
OpenRepo_fail_fast(r) ==
    /\ task[r].pc = "pending"
    /\ task' = IF repos[r].status = "ok"
               THEN [task EXCEPT ![r].pc = "walking"]
               ELSE [q \in 1..Len(repos) |-> [task[q] EXCEPT !.pc = "done"]]
    /\ UNCHANGED <<repos, missing_commits, history, classifier, sel_vars, cl_vars, bin_vars>>

\* Repository::open, revwalk, push_head and the setup of the walk
OpenRepo(r) ==
    /\ task[r].pc = "pending"
    /\ task' = [task EXCEPT ![r].pc = IF repos[r].status = "ok" THEN "walking" ELSE "done"]
    /\ UNCHANGED <<repos, missing_commits, history, classifier, sel_vars, cl_vars, bin_vars>>

\* a loop that gives the walk up at an id it cannot resolve
WalkCommit_stopping_at_missing(r) ==
    /\ task[r].pc = "walking"
    /\ task[r].pos <= Len(repos[r].walk)
    /\ LET commit == repos[r].walk[task[r].pos]
           result == classify(classifier, commit)
       IN  IF ~commit.resolves
           THEN /\ missing_commits' = fetch_add(missing_commits, 1)
                /\ task' = [task EXCEPT ![r].pos = @ + 1, ![r].pc = "done"]
           ELSE /\ missing_commits' = missing_commits
                /\ task' = [task EXCEPT
                       ![r].commits = IF result.include
                                      THEN Append(@, RepoCommit_from(repos[r], commit, task[r].pos))
                                      ELSE @,
                       ![r].pos = @ + 1,
                       ![r].pc = IF result.abort THEN "done" ELSE @]
    /\ UNCHANGED <<repos, history, classifier, sel_vars, cl_vars, bin_vars>>

\* one turn of the loop over the walk
WalkCommit(r) ==
    /\ task[r].pc = "walking"
    /\ task[r].pos <= Len(repos[r].walk)
    /\ LET commit == repos[r].walk[task[r].pos]
           result == classify(classifier, commit)
       IN  IF ~commit.resolves
           THEN /\ missing_commits' = fetch_add(missing_commits, 1)
                /\ task' = [task EXCEPT ![r].pos = @ + 1]
           ELSE /\ missing_commits' = missing_commits
                /\ task' = [task EXCEPT
                       ![r].commits = IF result.include
                                      THEN Append(@, RepoCommit_from(repos[r], commit, task[r].pos))
                                      ELSE @,
                       ![r].pos = @ + 1,
                       ![r].pc = IF result.abort THEN "done" ELSE @]
    /\ UNCHANGED <<repos, history, classifier, sel_vars, cl_vars, bin_vars>>

\* the walk has no more ids: the closure returns its commits
EndWalk(r) ==
    /\ task[r].pc = "walking"
    /\ task[r].pos > Len(repos[r].walk)
    /\ task' = [task EXCEPT ![r].pc = "done"]
    /\ UNCHANGED <<repos, missing_commits, history, classifier, sel_vars, cl_vars, bin_vars>>

\* collect, the sort and the MultiRepoHistory returned
Return ==
    /\ ~history.returned
    /\ \A r \in 1..Len(repos) : task[r].pc = "done"
    /\ \E commits \in sort_unstable_by(collect(task, Len(repos))) :
          history' = [returned |-> TRUE, commits |-> commits,
                      locally_missing_commits |-> missing_commits]
    /\ UNCHANGED <<repos, task, missing_commits, classifier, sel_vars, cl_vars, bin_vars>>

HistNext ==
    \/ \E r \in 1..Len(repos) : OpenRepo(r)
    \/ \E r \in 1..Len(repos) : WalkCommit(r)
    \/ \E r \in 1..Len(repos) : EndWalk(r)
    \/ Return

SpecHistory == HistInit /\ [][HistNext]_vars

\* the pool runs every closure it was given, and the caller goes on once the
\* closures are through
HistFairness ==
    /\ \A r \in 1..Len(RepoPaths) : WF_vars(OpenRepo(r) \/ WalkCommit(r) \/ EndWalk(r))
    /\ WF_vars(Return)

\* one entry of a walk for each way a turn of the loop can go: the id does
\* not resolve, the commit is kept, the commit ends the walk
FairWalkEntries ==
    {Unresolved, Commit(Now, <<"A", "b">>, <<>>), Commit(Now - 3 * SecondsPerDay, <<"A", "b">>, <<>>)}

\* termination does not hang on the patterns of the classifier nor on the
\* dates of the commits kept: the runs under fairness are those of the
\* classifier without patterns over walks of these entries, the first
\* repository failing or yielding one id at most, the second of any length
HistFairInit ==
    /\ HistInit
    /\ classifier = Classifier_new(1, None, None)
    /\ \A r \in 1..Len(repos) : Range(repos[r].walk) \subseteq FairWalkEntries
    /\ Len(repos[1].walk) <= 1

SpecHistoryFair == HistFairInit /\ [][HistNext]_vars /\ HistFairness

(***************************************************************************)
(* The repo-history command: do_main, from the project list to the         *)
(* aggregation of the repositories it names.                               *)
(***************************************************************************)
\* File::open of the project file and repos_from: one repository per line,
\* and the manifest repository if asked for
repos_from(pl, include_manifest) ==
    IF pl.kind = "Lines"
    THEN Ok(pl.lines \o (IF include_manifest THEN <<ManifestRepoPath>> ELSE <<>>))
    ELSE Err

\* the repository found at a path of the checkout: it opens, and its walk
\* yields one commit of today
OnDisk(rel_path) ==
    [rel_path |-> rel_path, status |-> "ok", walk |-> <<Commit(Now, <<"A", "b">>, <<>>)>>]

\* the manifests of the checkout: the primary manifest names boiler in the
\* groups e and m, a.xml names boiler; either may be absent
CmdFiles ==
    {[p \in FilePaths |->
          IF p = PrimaryManifest THEN primary
          ELSE IF p = join(ManifestsFolder, <<"a.xml">>) THEN a
          ELSE Missing] :
        primary \in {Missing, Doc(<<[name |-> "n", path |-> "boiler",
                                     groups |-> Some(<<"e", ",", "m">>)]>>, <<>>)},
        a \in {Missing, Doc(<<[name |-> "n", path |-> "boiler", groups |-> None]>>, <<>>)}}

CmdManifestFilters == {None, Some(<<<<"a.xml">>>>)}

CmdInit ==
    /\ project_list \in ProjectLists
    /\ files \in CmdFiles
    /\ sel_call = NoCall
    /\ sel_result = Err
    /\ parse_call = NoParse
    /\ parse_result = Err
    /\ classifier \in HistoryClassifiers
    /\ ClIdle
    /\ HistIdle
    /\ BinIdle

\* main and do_main up to the call of MultiRepoHistory::from
DoMain ==
    /\ history_cmd.status = "none"
    /\ \E group \in GroupFilters, manifest \in CmdManifestFilters, include_manifest \in BOOLEAN :
          LET rs == repos_from(project_list, include_manifest)
              args == [group |-> group, manifest |-> manifest,
                       include_manifest |-> include_manifest]
          IN  IF rs.tag = "Ok"
              THEN /\ history_cmd' = [status |-> "running"] @@ args
                   /\ repos' = [i \in 1..Len(rs.val) |-> OnDisk(rs.val[i])]
                   /\ task' = [i \in 1..Len(rs.val) |->
                                   [pc |-> "pending", pos |-> 1, commits |-> <<>>]]
              ELSE /\ history_cmd' = [status |-> "failed"] @@ args
                   /\ UNCHANGED <<repos, task>>
    /\ UNCHANGED <<missing_commits, history, classifier, sel_vars, cl_vars,
                   forall_st, restore_st>>

Running == history_cmd.status = "running"

CmdNext ==
    \/ DoMain
    \/ \E r \in 1..Len(repos) : Running /\ OpenRepo(r)
    \/ \E r \in 1..Len(repos) : Running /\ WalkCommit(r)
    \/ \E r \in 1..Len(repos) : Running /\ EndWalk(r)
    \/ Running /\ Return

SpecHistoryCmd == CmdInit /\ [][CmdNext]_vars

(***************************************************************************)
(* forall of repo-forall: the closure of par_iter().try_for_each runs on   *)
(* the threads of the pool.  A thread looks at the flag try_for_each       *)
(* raises on the first Err before it takes another project.                *)
(***************************************************************************)
\* list_of_projects: per project, whether its command exits with success
ForallInit ==
    /\ forall_st \in
          {[NoForall EXCEPT !.pc = "running", !.list_of_projects = l, !.fail_fast = f,
                            !.executions = [i \in 1..Len(l) |-> 0],
                            !.worker = [w \in Workers |-> [pc |-> "idle", item |-> 0]]] :
               l \in SeqsUpTo(BOOLEAN, MaxProjects), f \in BOOLEAN}
    /\ history_cmd = NoHistoryCmd
    /\ restore_st = NoRestore
    /\ classifier = Classifier_new(0, None, None)
    /\ SelIdle
    /\ ClIdle
    /\ HistIdle

Unstarted == (1..Len(forall_st.list_of_projects)) \ forall_st.started

\* a thread that goes on to the next project whatever the flag says
FaCheck_ignoring_full(w) ==
    /\ forall_st.pc = "running"
    /\ forall_st.worker[w].pc = "idle"
    /\ forall_st' = [forall_st EXCEPT
           !.worker[w].pc = IF Unstarted = {} THEN "stopped" ELSE "go"]
    /\ UNCHANGED <<classifier, sel_vars, cl_vars, hist_vars, history_cmd, restore_st>>

\* a thread between two projects reads the flag: raised, or nothing left,
\* and it is through
FaCheck(w) ==
    /\ forall_st.pc = "running"
    /\ forall_st.worker[w].pc = "idle"
    /\ forall_st' = [forall_st EXCEPT
           !.worker[w].pc = IF forall_st.full \/ Unstarted = {} THEN "stopped" ELSE "go"]
    /\ UNCHANGED <<classifier, sel_vars, cl_vars, hist_vars, history_cmd, restore_st>>

\* the closure is entered for a project and Command::output starts sh
FaStart(w) ==
    /\ forall_st.pc = "running"
    /\ forall_st.worker[w].pc = "go"
    /\ IF Unstarted = {}
       THEN forall_st' = [forall_st EXCEPT !.worker[w].pc = "stopped"]
       ELSE \E i \in Unstarted :
                forall_st' = [forall_st EXCEPT
                    !.worker[w] = [pc |-> "running", item |-> i],
                    !.started = @ \cup {i},
                    !.executions[i] = @ + 1,
                    !.started_after_failure =
                        IF forall_st.failed # {} THEN @ \cup {i} ELSE @,
                    !.started_after_full[w] = IF forall_st.full THEN @ + 1 ELSE @]
    /\ UNCHANGED <<classifier, sel_vars, cl_vars, hist_vars, history_cmd, restore_st>>

\* the command of the project exits
FaExit(w) ==
    /\ forall_st.pc = "running"
    /\ forall_st.worker[w].pc = "running"
    /\ LET i == forall_st.worker[w].item
       IN  forall_st' = [forall_st EXCEPT
               !.worker[w].pc = "returning",
               !.failed = IF forall_st.list_of_projects[i] THEN @ ELSE @ \cup {i}]
    /\ UNCHANGED <<classifier, sel_vars, cl_vars, hist_vars, history_cmd, restore_st>>

\* the closure sends the output and returns; an Err raises the flag
FaReturn(w) ==
    /\ forall_st.pc = "running"
    /\ forall_st.worker[w].pc = "returning"
    /\ LET i == forall_st.worker[w].item
       IN  forall_st' = [forall_st EXCEPT
               !.worker[w].pc = "idle",
               !.sent = @ \cup {i},
               !.full = @ \/ (forall_st.fail_fast /\ ~forall_st.list_of_projects[i])]
    /\ UNCHANGED <<classifier, sel_vars, cl_vars, hist_vars, history_cmd, restore_st>>

\* the loop of try_recv: every output in the channel is taken and counted
drain(st) ==
    [st EXCEPT
        !.received = st.sent,
        !.succeeded = Cardinality({i \in st.sent : st.list_of_projects[i]}),
        !.failed_count = Cardinality({i \in st.sent : ~st.list_of_projects[i]})]

\* a summary loop that does not wait for the threads of the pool
FaFinish_before_join ==
    /\ forall_st.pc = "running"
    /\ forall_st' = [drain(forall_st) EXCEPT
           !.pc = "done",
           !.result = IF drain(forall_st).failed_count = 0 THEN "Ok" ELSE "Err"]
    /\ UNCHANGED <<classifier, sel_vars, cl_vars, hist_vars, history_cmd, restore_st>>

\* try_for_each is through: the outputs are counted and forall returns
FaFinish ==
    /\ forall_st.pc = "running"
    /\ \A w \in Workers : forall_st.worker[w].pc = "stopped"
    /\ forall_st' = [drain(forall_st) EXCEPT
           !.pc = "done",
           !.result = IF drain(forall_st).failed_count = 0 THEN "Ok" ELSE "Err"]
    /\ UNCHANGED <<classifier, sel_vars, cl_vars, hist_vars, history_cmd, restore_st>>

ForallNext ==
    \/ \E w \in Workers : FaCheck(w)
    \/ \E w \in Workers : FaStart(w)
    \/ \E w \in Workers : FaExit(w)
    \/ \E w \in Workers : FaReturn(w)
    \/ FaFinish

SpecForall == ForallInit /\ [][ForallNext]_vars

(***************************************************************************)
(* The repo-restore command: main, from the scan of the selected projects  *)
(* to the restore of the dirty ones.                                       *)
(***************************************************************************)
\* a repository of the checkout: whether its scan succeeds, what the scan
\* finds, and whether the restore command succeeds in it
RestoreRepos(path) ==
    {[path |-> path, scan_ok |-> so, uncomitted_changes |-> u, local_deltas |-> d,
      restore_ok |-> ro] :
         so \in BOOLEAN, u \in BOOLEAN, d \in {0, 1}, ro \in BOOLEAN}

\* the projects select_projects gave the command, with what is on disk
RestoreLists ==
    {<<>>}
        \cup {<<a>> : a \in RestoreRepos("boiler")}
        \cup {<<a, b>> : a \in RestoreRepos("boiler"), b \in RestoreRepos("pot")}
        \cup {<<b, a>> : a \in RestoreRepos("boiler"), b \in RestoreRepos("pot")}

\* GitStatus::new
GitStatus_new(path, dirty, local_deltas) ==
    [path |-> path, uncomitted_changes |-> dirty, local_deltas |-> local_deltas]

\* the order of the paths of the model as strings
PathRank(path) == IF path = "boiler" THEN 1 ELSE IF path = "pot" THEN 2 ELSE 0

\* repo_statuses.sort(): by path first
RECURSIVE sort(_)
sort(statuses) ==
    IF statuses = {} THEN <<>>
    ELSE LET least == CHOOSE gs \in statuses :
                          \A other \in statuses : PathRank(gs.path) <= PathRank(other.path)
         IN  <<least>> \o sort(statuses \ {least})

\* a scan that takes every repository for dirty
is_dirty_whatever(gs) == TRUE

\* the test of scan_for_dirty_repos
is_dirty(gs) == gs.uncomitted_changes \/ gs.local_deltas > 0

RestoreInit ==
    /\ restore_st \in
          {[NoRestore EXCEPT !.pc = "scan", !.dry_run = d, !.list_of_projects = l] :
               d \in BOOLEAN, l \in RestoreLists}
    /\ history_cmd = NoHistoryCmd
    /\ forall_st = NoForall
    /\ classifier = Classifier_new(0, None, None)
    /\ SelIdle
    /\ ClIdle
    /\ HistIdle

\* scan_for_dirty_repos and the test main makes of its result
RsScan ==
    /\ restore_st.pc = "scan"
    /\ LET l == restore_st.list_of_projects
           repo_statuses ==
               sort({GitStatus_new(l[i].path, l[i].uncomitted_changes, l[i].local_deltas) :
                         i \in 1..Len(l)})
           dirty_repos == SelectSeq(repo_statuses, is_dirty)
       IN  IF \E i \in 1..Len(l) : ~l[i].scan_ok
           THEN restore_st' = [restore_st EXCEPT !.pc = "done", !.result = "Panic"]
           ELSE IF restore_st.dry_run \/ dirty_repos = <<>>
           THEN restore_st' = [restore_st EXCEPT !.pc = "done", !.result = "Ok",
                                                 !.dirty_repos = dirty_repos]
           ELSE restore_st' = [restore_st EXCEPT !.pc = "prompt",
                                                 !.dirty_repos = dirty_repos]
    /\ UNCHANGED <<classifier, sel_vars, cl_vars, hist_vars, history_cmd, forall_st>>

\* the confirmation prompt
RsConfirm ==
    /\ restore_st.pc = "prompt"
    /\ \E confirmation \in BOOLEAN :
          restore_st' = IF confirmation
                        THEN [restore_st EXCEPT !.pc = "restoring", !.confirmation = TRUE]
                        ELSE [restore_st EXCEPT !.pc = "done", !.result = "Ok"]
    /\ UNCHANGED <<classifier, sel_vars, cl_vars, hist_vars, history_cmd, forall_st>>

\* restore_dirty_repos: the command in the next dirty repository
RsRestoreRepo ==
    /\ restore_st.pc = "restoring"
    /\ LET k == Len(restore_st.restored) + 1
           l == restore_st.list_of_projects
       IN  IF k > Len(restore_st.dirty_repos)
           THEN restore_st' = [restore_st EXCEPT !.pc = "done", !.result = "Ok"]
           ELSE LET path == restore_st.dirty_repos[k].path
                    repo == CHOOSE x \in Range(l) : x.path = path
                IN  restore_st' = [restore_st EXCEPT
                        !.restored = Append(@, path),
                        !.pc = IF repo.restore_ok THEN @ ELSE "done",
                        !.result = IF repo.restore_ok THEN @ ELSE "Err"]
    /\ UNCHANGED <<classifier, sel_vars, cl_vars, hist_vars, history_cmd, forall_st>>

RestoreNext == RsScan \/ RsConfirm \/ RsRestoreRepo

SpecRestore == RestoreInit /\ [][RestoreNext]_vars

(***************************************************************************)
(* What the claims speak of.                                               *)
(***************************************************************************)
Called(groups, manifests) ==
    /\ sel_call.made
    /\ sel_call.filter_by_groups.some = groups
    /\ sel_call.filter_by_manifest_files.some = manifests

Front(s) == SubSeq(s, 1, Len(s) - 1)

\* the result without the entry the include_manifest_repo flag adds
Selection ==
    IF sel_call.include_manifest_repo THEN Front(sel_result.val) ELSE sel_result.val

Count(x, s) == Cardinality({i \in 1..Len(s) : s[i] = x})

RECURSIVE IsSubsequence(_, _)
IsSubsequence(s, t) ==
    IF s = <<>> THEN TRUE
    ELSE IF t = <<>> THEN FALSE
    ELSE IF Head(s) = Head(t) THEN IsSubsequence(Tail(s), Tail(t))
    ELSE IsSubsequence(s, Tail(t))

\* the project elements of the files of S
ProjectsOf(S) == UNION {Range(read_manifest(files, p).projects) : p \in S}

\* the group set of a project element: the pieces of its groups attribute
GroupSet(project) ==
    Range(split(IF project.groups.some THEN project.groups.val ELSE <<>>))

\* the files the primary manifest is made of, and those the named manifest
\* files of the call are made of
PrimaryFiles == files_of_parse_manifest(files, join(RepoFolder, <<"manifest.xml">>))

NamedFiles ==
    LET named == sel_call.filter_by_manifest_files.val
    IN  UNION {files_of_parse_manifest(files, join(ManifestsFolder, named[i])) :
                   i \in 1..Len(named)}

\* C1: with no group filter, no manifest filter and include_manifest_repo =
\* false, select_projects returns exactly the lines of project.list, in file
\* order.
C1_NoFilterReturnsList ==
    (Called(FALSE, FALSE) /\ ~sel_call.include_manifest_repo /\ project_list.kind = "Lines")
        => sel_result = Ok(project_list.lines)

C1_Witness ==
    /\ Called(FALSE, FALSE) /\ ~sel_call.include_manifest_repo
    /\ sel_result = Ok(<<"pot", "boiler">>)

\* C2: with only a group filter, a path of project.list is kept if and only if
\* the resolved primary manifest holds a project with that path whose group set
\* has a group in common with the requested groups.
C2_GroupFilterKeepsAnyMatch ==
    (Called(TRUE, FALSE) /\ sel_result.tag = "Ok")
        => Selection = SelectSeq(project_list.lines,
               LAMBDA path : \E p \in ProjectsOf(PrimaryFiles) :
                   /\ p.path = path
                   /\ GroupSet(p) \cap Range(sel_call.filter_by_groups.val) # {})

\* C3: with only a manifest filter, a path of project.list is kept if and only
\* if it is the path of a project of one of the named manifest files, includes
\* resolved, whatever the groups of that project.
C3_ManifestFilterKeepsUnion ==
    (Called(FALSE, TRUE) /\ sel_result.tag = "Ok")
        => Selection = SelectSeq(project_list.lines,
               LAMBDA path : \E p \in ProjectsOf(NamedFiles) : p.path = path)

C3_Witness ==
    /\ Called(FALSE, TRUE) /\ sel_result.tag = "Ok"
    /\ Len(sel_call.filter_by_manifest_files.val) = 2
    /\ project_list.lines = <<"pot", "boiler">>
    /\ Selection = <<"boiler">>
    /\ files[<<".repo", "manifests", "a.xml">>].projects = <<>>
    /\ files[<<".repo", "manifests", "b.xml">>].includes # <<>>

\* C4: with both filters the result is the intersection of the result with the
\* group filter alone and the result with the manifest filter alone.
C4_BothFiltersIntersect ==
    (Called(TRUE, TRUE) /\ sel_result.tag = "Ok")
        => LET by_groups == select_projects(project_list, files, FALSE,
                                sel_call.filter_by_groups, None)
               by_manifests == select_projects(project_list, files, FALSE,
                                   None, sel_call.filter_by_manifest_files)
           IN  /\ by_groups.tag = "Ok"
               /\ by_manifests.tag = "Ok"
               /\ Selection = SelectSeq(by_groups.val,
                                  LAMBDA path : path \in Range(by_manifests.val))

C4_Witness ==
    /\ Called(TRUE, TRUE) /\ sel_result.tag = "Ok"
    /\ project_list.lines = <<"boiler", "pot">>
    /\ Selection = <<>>
    /\ select_projects(project_list, files, FALSE, None,
           sel_call.filter_by_manifest_files).val = <<"boiler">>

\* C5 as stated: with include_manifest_repo = true the result ends with
\* .repo/manifests and holds that path exactly once.
C5_ManifestRepoExactlyOnce ==
    (sel_call.made /\ sel_call.include_manifest_repo /\ sel_result.tag = "Ok")
        => /\ Len(sel_result.val) >= 1
           /\ sel_result.val[Len(sel_result.val)] = ManifestRepoPath
           /\ Count(ManifestRepoPath, sel_result.val) = 1

\* C5 as amended: with include_manifest_repo = true the result is what the same
\* filters select without the flag, followed by one .repo/manifests; the path
\* occurs once more than in that selection.
C5_ManifestRepoAppendedOnce ==
    (sel_call.made /\ sel_call.include_manifest_repo /\ sel_result.tag = "Ok")
        => LET without == select_projects(project_list, files, FALSE,
                              sel_call.filter_by_groups, sel_call.filter_by_manifest_files)
           IN  /\ without.tag = "Ok"
               /\ sel_result.val = Append(without.val, ManifestRepoPath)
               /\ Count(ManifestRepoPath, sel_result.val)
                      = Count(ManifestRepoPath, without.val) + 1

C5_Witness ==
    /\ Called(TRUE, TRUE) /\ sel_call.include_manifest_repo
    /\ project_list.lines = <<"boiler", "pot">>
    /\ sel_result = Ok(<<ManifestRepoPath>>)

\* C6: leaving aside the entry the include_manifest_repo flag adds, the result
\* is a subsequence of project.list, for every combination of filters, also
\* when the manifests hold the same project path several times.
C6_ResultIsSubsequence ==
    (sel_call.made /\ sel_result.tag = "Ok")
        => IsSubsequence(Selection, project_list.lines)

C6_Witness ==
    /\ Called(TRUE, TRUE) /\ sel_result.tag = "Ok"
    /\ project_list.lines = <<"pot", "boiler">>
    /\ Selection = <<"boiler">>
    /\ \E f \in PrimaryFiles, g \in NamedFiles :
          /\ f # g
          /\ \E p \in Range(files[f].projects), q \in Range(files[g].projects) :
                p.path = "boiler" /\ q.path = "boiler"

\* the files select_projects needs for the filters of the call
RequiredFiles ==
    (IF sel_call.filter_by_groups.some THEN PrimaryFiles ELSE {})
        \cup (IF sel_call.filter_by_manifest_files.some THEN NamedFiles ELSE {})

\* C7: select_projects returns an error if project.list cannot be located or
\* read or if a manifest a supplied filter needs, or one of its includes,
\* cannot be opened or parsed; in every other case it returns success.
C7_ErrorsExactlyOnBadFiles ==
    sel_call.made
        => LET bad == \/ project_list.kind # "Lines"
                      \/ \E f \in RequiredFiles : read_manifest(files, f).kind # "Doc"
           IN  sel_result.tag = (IF bad THEN "Err" ELSE "Ok")

\* C8: a parsed manifest holds the project elements of the parsed file and of
\* every file it includes, directly or through nested includes.
C8_ParseHoldsAllIncludedProjects ==
    /\ (parse_call.made = "parse_manifest" /\ parse_result.tag = "Ok")
          => ProjectsOf(files_of_parse_manifest(files, parse_call.path))
                 \subseteq Range(parse_result.val.projects)
    /\ (parse_call.made = "parse" /\ parse_result.tag = "Ok")
          => ProjectsOf(files_of_parse(files, parse_call.path))
                 \subseteq Range(parse_result.val.projects)

C8_Witness ==
    /\ parse_call.made = "parse_manifest" /\ parse_result.tag = "Ok"
    /\ parse_call.path = PrimaryManifest
    /\ Cardinality(files_of_parse_manifest(files, parse_call.path)) = 3
    /\ Len(parse_result.val.projects) = 3

\* the age of the commit handed to classify, in whole days, as a signed number
AgeDays == num_days(Now - as_datetime_utc(cl_commit.time))

\* C9: classify returns (include = false, abort = true) for a commit older than
\* max_age_days, (false, false) for a commit within the window that fails a
\* configured text filter and (true, false) for a commit within the window
\* that passes them all; include and abort are never both true.
C9_ClassifyByWindowAndFilters ==
    cl_result.called
        => /\ AgeDays > classifier.age
                  => (~cl_result.include /\ cl_result.abort)
           /\ (AgeDays <= classifier.age /\ ~passes_filters(classifier, cl_commit))
                  => (~cl_result.include /\ ~cl_result.abort)
           /\ (AgeDays <= classifier.age /\ passes_filters(classifier, cl_commit))
                  => (cl_result.include /\ ~cl_result.abort)
           /\ ~(cl_result.include /\ cl_result.abort)

\* C10: the commits of the MultiRepoHistory returned are sorted by commit
\* time, descending: no commit is older than the one after it.
C10_CommitsSortedDescending ==
    history.returned
        => \A i \in 1..(Len(history.commits) - 1) :
               history.commits[i].commit_time >= history.commits[i + 1].commit_time

C10_Witness ==
    /\ history.returned
    /\ Len(history.commits) = 4
    /\ history.commits[1].commit_time > history.commits[4].commit_time
    /\ history.commits[1].repo = "pot"
    /\ history.commits[4].repo = "boiler"
    /\ history.commits # collect(task, Len(repos))

\* the commits of the returned history that carry the path of repository r
CommitsOf(r) ==
    {history.commits[k] : k \in {i \in 1..Len(history.commits) :
                                     history.commits[i].repo = repos[r].rel_path}}

RECURSIVE SumOver(_, _)
SumOver(f, n) == IF n = 0 THEN 0 ELSE SumOver(f, n - 1) + f[n]

\* C11: the commits returned are a permutation of the concatenation of the
\* lists of the closures: every commit a closure collected is there exactly
\* once and carries the path of the repository it was walked from, and
\* nothing else is there.
C11_MergedIsPermutation ==
    history.returned
        => /\ \A r \in 1..Len(repos) : \A i \in 1..Len(task[r].commits) :
                  /\ task[r].commits[i].repo = repos[r].rel_path
                  /\ Count(task[r].commits[i], history.commits) = 1
           /\ Len(history.commits)
                  = SumOver([r \in 1..Len(repos) |-> Len(task[r].commits)], Len(repos))

C11_Witness ==
    /\ history.returned
    /\ Len(task[1].commits) = 2
    /\ Len(task[2].commits) = 1
    /\ history.commits[2].repo = "pot"

\* the ids the walk of repository r yielded that did not resolve
FailedResolutions(r) ==
    Cardinality({i \in 1..(task[r].pos - 1) : ~repos[r].walk[i].resolves})

\* C12: when MultiRepoHistory::from returns, locally_missing_commits is the
\* number of ids the walks yielded that did not resolve, summed over the
\* repositories.
C12_MissingCountIsSum ==
    history.returned
        => history.locally_missing_commits
               = SumOver([r \in 1..Len(repos) |-> FailedResolutions(r)], Len(repos))

C12_Witness ==
    /\ history.returned
    /\ history.locally_missing_commits = 3
    /\ FailedResolutions(1) = 1
    /\ FailedResolutions(2) = 2

\* what the closure collects from one repository walked on its own
RECURSIVE walk_alone(_, _, _)
walk_alone(self, repo, pos) ==
    IF pos > Len(repo.walk) THEN <<>>
    ELSE LET commit == repo.walk[pos]
             result == classify(self, commit)
         IN  IF ~commit.resolves THEN walk_alone(self, repo, pos + 1)
             ELSE (IF result.include THEN <<RepoCommit_from(repo, commit, pos)>> ELSE <<>>)
                  \o (IF result.abort THEN <<>> ELSE walk_alone(self, repo, pos + 1))

AllDone == \A r \in 1..Len(repos) : task[r].pc = "done"

\* C13: a repository on which open, revwalk or push_head fails contributes no
\* commit; every other repository contributes what its walk alone gives,
\* whatever happened to the rest; and once every closure is through,
\* MultiRepoHistory::from returns its MultiRepoHistory.
C13_FailedRepoContributesNothing ==
    /\ history.returned
           => \A r \in 1..Len(repos) :
                  CommitsOf(r) = IF repos[r].status = "ok"
                                 THEN Range(walk_alone(classifier, repos[r], 1))
                                 ELSE {}
    /\ (AllDone /\ ~history.returned) => ENABLED Return

C13_Witness ==
    /\ history.returned
    /\ repos[1].status = "revwalk fails"
    /\ repos[2].status = "ok"
    /\ Len(history.commits) = 2
    /\ CommitsOf(1) = {}

\* the walk of repository r ended at a commit classify told it to stop at
Aborted(r) ==
    /\ task[r].pos > 1
    /\ repos[r].walk[task[r].pos - 1].resolves
    /\ classify(classifier, repos[r].walk[task[r].pos - 1]).abort

\* repository r was recorded as failed, or walked to its end or to the
\* commit it stopped at
Processed(r) ==
    /\ task[r].pc = "done"
    /\ \/ repos[r].status # "ok"
       \/ task[r].pos > Len(repos[r].walk)
       \/ Aborted(r)

\* C14: with the closures scheduled fairly, MultiRepoHistory::from comes to
\* return, and by then every repository was processed: walked to its end or
\* to the commit it stopped at, or recorded as failed, whatever happened in
\* the other repositories.
C14_EveryRunTerminates ==
    <>(history.returned /\ \A r \in 1..Len(RepoPaths) : Processed(r))

C14_Witness ==
    /\ history.returned
    /\ repos[1].status = "open fails"
    /\ Len(repos[2].walk) = 2
    /\ task[2].pos = 2
    /\ Aborted(2)

\* what project selection gives for the filters of the command line
Selected ==
    select_projects(project_list, files, history_cmd.include_manifest,
                    history_cmd.group, history_cmd.manifest)

\* C15: with a group filter or a manifest filter on its command line, the
\* history command walks only the repositories project selection chooses: a
\* repository that does not pass the filters is not walked and has no commit
\* in the history.
C15_HistoryWalksOnlySelected ==
    (/\ history_cmd.status = "running"
     /\ history_cmd.group.some \/ history_cmd.manifest.some
     /\ Selected.tag = "Ok")
        => \A r \in 1..Len(repos) :
               repos[r].rel_path \notin Range(Selected.val)
                   => /\ task[r].pc = "pending"
                      /\ CommitsOf(r) = {}

\* C16: with fail-fast, once the command of some project has failed, no
\* command is started for a project whose command had not been started by
\* then.
C16_NoStartAfterFailure ==
    forall_st.fail_fast => forall_st.started_after_failure = {}

\* C16, as the code has it: with fail-fast, once a closure has returned its
\* Err to try_for_each, a thread starts at most the one command it had
\* already gone on to; without fail-fast the flag is never raised.
C16_AtMostOneStartAfterErr ==
    /\ \A w \in Workers : forall_st.started_after_full[w] <= 1
    /\ forall_st.full => forall_st.fail_fast

C16_Witness ==
    /\ forall_st.pc = "done"
    /\ forall_st.fail_fast
    /\ forall_st.full
    /\ \E w \in Workers : forall_st.started_after_full[w] = 1
    /\ Unstarted # {}

\* C17: the restore command runs git clean and the hard reset in a
\* repository only if dry-run is off, the repository has uncommitted changes
\* or local deltas, and the user confirmed; with dry-run on no repository is
\* touched.
C17_RestoreOnlyDirtyAndConfirmed ==
    /\ \A k \in 1..Len(restore_st.restored) :
           /\ ~restore_st.dry_run
           /\ restore_st.confirmation
           /\ \E repo \in Range(restore_st.list_of_projects) :
                  /\ repo.path = restore_st.restored[k]
                  /\ repo.uncomitted_changes \/ repo.local_deltas > 0
    /\ restore_st.dry_run => restore_st.restored = <<>>

C17_Witness ==
    /\ restore_st.pc = "done"
    /\ restore_st.result = "Ok"
    /\ Len(restore_st.list_of_projects) = 2
    /\ restore_st.restored = <<"pot">>
    /\ restore_st.list_of_projects[1].path = "boiler"
    /\ ~is_dirty(restore_st.list_of_projects[1])

\* the commit is no older than the age of the classifier, in whole days
WithinWindow(commit) == num_days(Now - as_datetime_utc(commit.time)) <= classifier.age

\* C18: once a walk stopped at a commit classified abort = true, no commit
\* the walk would have yielded after it is within the window; so the list of
\* a repository holds every commit of its walk that is within the window and
\* passes the filters of the classifier.
C18_AbortLosesNothing ==
    \A r \in 1..Len(repos) :
        (task[r].pc = "done" /\ repos[r].status = "ok")
            => /\ Aborted(r)
                      => \A i \in task[r].pos..Len(repos[r].walk) :
                             repos[r].walk[i].resolves => ~WithinWindow(repos[r].walk[i])
               /\ Range(task[r].commits)
                      = {RepoCommit_from(repos[r], repos[r].walk[i], i) :
                             i \in {j \in 1..Len(repos[r].walk) :
                                        /\ repos[r].walk[j].resolves
                                        /\ WithinWindow(repos[r].walk[j])
                                        /\ passes_filters(classifier, repos[r].walk[j])}}

\* C19: for every commit time and every age, classify takes the commit for
\* within the window, and returns abort = false, exactly when its age in
\* whole days is at most the age of the classifier; a commit dated in the
\* future has a negative age and is within the window.
C19_WindowIsSignedComparison ==
    cl_result.called => (cl_result.abort <=> ~WithinWindow(cl_commit))

\* C20: an id of the walk that does not resolve adds exactly one to the
\* counter of missing commits and leaves the walk of its repository going,
\* at the next id.
C20_MissingCommitDoesNotEndWalk ==
    [][\A r \in 1..Len(repos) :
           (/\ task[r].pc = "walking"
            /\ task[r].pos <= Len(repos[r].walk)
            /\ ~repos[r].walk[task[r].pos].resolves
            /\ task'[r] # task[r])
               => /\ missing_commits' = missing_commits + 1
                  /\ task'[r] = [task[r] EXCEPT !.pos = @ + 1]]_vars

C20_Witness ==
    /\ history.returned
    /\ repos[1].status = "ok"
    /\ Len(repos[1].walk) = 2
    /\ ~repos[1].walk[1].resolves
    /\ Len(task[1].commits) = 1
    /\ history.locally_missing_commits = 1

\* C21: a manifest parsed and resolved holds no include any more: its
\* includes sequence is empty.
C21_ResolvedHasNoIncludes ==
    (parse_call.made # "none" /\ parse_result.tag = "Ok")
        => parse_result.val.includes = <<>>

\* C21, as the code has it: the resolved manifest keeps the include elements
\* of the parsed file itself, and none of the files it includes.
C21_ResolvedKeepsOwnIncludes ==
    (parse_call.made # "none" /\ parse_result.tag = "Ok")
        => parse_result.val.includes = read_manifest(files, parse_call.path).includes

C21_Witness ==
    /\ parse_call.made = "parse_manifest" /\ parse_result.tag = "Ok"
    /\ parse_call.path = PrimaryManifest
    /\ parse_result.val.includes = <<<<"a.xml">>>>
    /\ read_manifest(files, join(ManifestsFolder, <<"a.xml">>)).includes = <<<<"b.xml">>>>

\* the files of S all hold a manifest
AllDocs(S) == \A f \in S : read_manifest(files, f).kind = "Doc"

\* C22: the includes of the primary manifest are taken for siblings of the
\* including file, at every level; those of a manifest file of the manifests
\* folder are taken from the manifests folder.
C22_PrimaryIncludesAreSiblings ==
    parse_call.made = "parse_manifest"
        => IF parse_call.path = PrimaryManifest
           THEN parse_result = parse(files, parse_call.path, StackLimit)
           ELSE parse_result.tag = "Ok"
                    => Range(parse_result.val.projects)
                           = ProjectsOf(files_of_parse_manifest(files, parse_call.path))

\* C22, as the code has it: for the primary manifest and for a manifest file
\* alike, the includes of the parsed file are taken from the manifests folder
\* and the includes of an included file for its siblings.  The projects of a
\* parsed manifest are those of exactly these files, and the parse succeeds
\* if they all hold a manifest and none includes itself.
C22_OwnIncludesFromManifestsFolder ==
    parse_call.made = "parse_manifest"
        => LET reached == files_of_parse_manifest(files, parse_call.path)
           IN  /\ parse_result.tag = "Ok"
                      => Range(parse_result.val.projects) = ProjectsOf(reached)
               /\ (AllDocs(reached) /\ parse_result.tag # "StackOverflow")
                      => parse_result.tag = "Ok"
               /\ parse_result.tag = "Err" => ~AllDocs(reached)

C22_Witness ==
    /\ parse_call.made = "parse_manifest" /\ parse_result.tag = "Ok"
    /\ parse_call.path = PrimaryManifest
    /\ read_manifest(files, PrimaryManifest).includes = <<<<"a.xml">>>>
    /\ Len(read_manifest(files, PrimaryManifest).projects) = 0
    /\ Len(parse_result.val.projects) = 1

\* every file the call reads
Reached ==
    IF parse_call.made = "parse" THEN files_of_parse(files, parse_call.path)
    ELSE files_of_parse_manifest(files, parse_call.path)

\* the files the call hands to a nested parse, and for a call of parse the
\* parsed file too
Entered ==
    IF parse_call.made = "parse" THEN files_of_parse(files, parse_call.path)
    ELSE nested_closure(files, included_by_parse_manifest(files, parse_call.path))

\* the file includes itself, directly or through other files
IncludesItself(f) == f \in nested_closure(files, included_by_parse(files, f))

\* the include graph the call can reach has a cycle
Cyclic == \E f \in Entered : IncludesItself(f)

\* C23: parsing ends with a result, a manifest or an error, exactly when the
\* include graph reached from the parsed file has no cycle; with a cycle the
\* recursion never completes.
C23_TerminatesExactlyWhenAcyclic ==
    parse_call.made # "none" => (parse_result.tag = "StackOverflow" <=> Cyclic)

\* C23, as the code has it: without a cycle parsing ends with a result; with
\* a cycle it never yields a manifest: the recursion never completes, unless
\* an include that comes earlier in its file cannot be opened or parsed, and
\* then the error of that include is the result.  No error stands for a cycle.
C23_NoManifestFromCycle ==
    parse_call.made # "none"
        => /\ ~Cyclic => parse_result.tag # "StackOverflow"
           /\ Cyclic => parse_result.tag # "Ok"
           /\ parse_result.tag = "Err" => ~AllDocs(Reached)

C23_Witness ==
    /\ parse_call.made = "parse" /\ parse_result.tag = "StackOverflow"
    /\ Cyclic
    /\ ~IncludesItself(Resolve(<<>>, parse_call.path))
    /\ Len(read_manifest(files, parse_call.path).includes) = 2

\* C24: without fail-fast, in every interleaving of the threads the command
\* has run exactly once for each selected project when forall returns, every
\* output sent on the channel has been received by the summary loop, and
\* succeeded + failed is the number of selected projects.
C24_EveryProjectRunOnceAndCounted ==
    (forall_st.pc = "done" /\ ~forall_st.fail_fast)
        => LET all == 1..Len(forall_st.list_of_projects)
           IN  /\ \A i \in all : forall_st.executions[i] = 1
               /\ forall_st.sent = all
               /\ forall_st.received = forall_st.sent
               /\ forall_st.succeeded + forall_st.failed_count
                      = Len(forall_st.list_of_projects)
               /\ forall_st.succeeded
                      = Cardinality({i \in all : forall_st.list_of_projects[i]})

C24_Witness ==
    /\ forall_st.pc = "done" /\ ~forall_st.fail_fast
    /\ Len(forall_st.list_of_projects) = MaxProjects
    /\ forall_st.succeeded >= 1 /\ forall_st.failed_count >= 1
    /\ forall_st.result = "Err"

====
